---- MODULE Spec2Model ----
(***************************************************************************)
(* Model of the DeFi risk dashboard: the swap core (lib/web3.ts            *)
(* executeSwap), the LP analysis (analyzeLPPosition), the display maths    *)
(* of the page component and the page's own state and handlers.            *)
(*                                                                         *)
(*   - The external ledger (pool reserves, ERC-20 allowance of the pool    *)
(*     over the owner's tokens) is state shared with the environment.      *)
(*   - One swap attempt is one call of executeSwap; every `await` of the   *)
(*     source is a point where the ledger may move, so each awaited call   *)
(*     is one action.                                                      *)
(*   - JavaScript numbers that may be fractional (the amount typed by the  *)
(*     user, the slippage percentage) are exact rationals <<n, d>>, d > 0; *)
(*     NaN and Infinity are separate kinds.  BigInt values are integers.   *)
(*     Floating-point rounding of the display path is not modelled.        *)
(***************************************************************************)
EXTENDS Integers, Sequences, FiniteSets, TLC

VARIABLES
    reserves,     \* ledger: <<reserve0, reserve1>> of the pool contract
    allowance,    \* ledger: token -> allowance(owner, POOL_ADDRESS)
    ledgerLog,    \* history: every reserve pair the ledger has ever held
    trades,       \* number of trades other parties have settled
    att,          \* session -> the state of its executeSwap call
    calc,         \* inputs and results of the pure quoting functions
    dash          \* the page component's state (what the dashboard shows)

vars == <<reserves, allowance, ledgerLog, trades, att, calc, dash>>

----------------------------------------------------------------------------
(* Bounds of the model *)

MaxAmountIn == 4      \* whole-token amounts 1..MaxAmountIn are tried
MaxTrades == 1        \* trades of other parties during one behaviour
MaxReserve == 8       \* reserves 1..MaxReserve for the pure functions
MaxEvents == 2        \* user events on the page during one behaviour
MaxRoot == 5          \* price ratios (m/n)^2 with m, n up to MaxRoot

(* Program constants *)

FEE_NUM == 997
FEE_DEN == 1000
BPS_DEN == 10000

Sessions == {1, 2}
Tokens == {"FINE5", "FINE6"}
Directions == {"0to1", "1to0"}
NoVal == 0 - 1         \* a value not read yet (ledger values are unsigned)

----------------------------------------------------------------------------
(* JavaScript arithmetic *)

\* BigInt division truncates toward zero; b > 0
TruncDiv(a, b) == IF a >= 0 THEN a \div b ELSE -((-a) \div b)

\* Math.floor of the rational n/d, d > 0
MathFloor(n, d) == n \div d

\* Math.round of the rational n/d, d > 0: nearest integer, halves go up
MathRound(n, d) == (2 * n + d) \div (2 * d)

\* Number.isInteger of the rational n/d
IsInteger(n, d) == n % d = 0

----------------------------------------------------------------------------
(* Inputs: JavaScript numbers as [kind, n, d], the rational n/d when finite *)

Num(n, d) == [kind |-> "finite", n |-> n, d |-> d]
NaN == [kind |-> "NaN", n |-> 0, d |-> 1]
Infinity == [kind |-> "Infinity", n |-> 1, d |-> 1]

\* amounts a caller may pass: not a number, infinite, negative, zero,
\* fractional below and above one, and the whole amounts 1..MaxAmountIn
AmountInputs ==
    {NaN, Infinity, Num(-1, 1), Num(0, 1), Num(1, 2), Num(3, 2)}
        \cup {Num(n, 1) : n \in 1..MaxAmountIn}

\* tolerances a caller may pass, in percent: -1, 0, 0.005, 1, 100, 101, NaN
SlippageInputs ==
    {NaN, Num(-1, 1), Num(0, 1), Num(1, 200), Num(1, 1), Num(100, 1),
     Num(101, 1)}

\* maxSlippagePct lies in (0, 100]
SlippageInRange(x) == x.kind = "finite" /\ x.n > 0 /\ x.n <= 100 * x.d

----------------------------------------------------------------------------
(* executeSwap: the synchronous pieces *)

ErrAmount == "Amount must be a positive number"
ErrNoLiquidity == "Pool has no liquidity"
ErrZeroOutput == "Amount out is zero - check reserves and amount"
ErrRange == "RangeError"
ErrEncode == "value out-of-bounds"
ErrNetwork == "network error"
ErrRejected == "user rejected action"
ErrReverted == "transaction execution reverted"

\* if (!Number.isFinite(amountIn) || amountIn <= 0) throw
AmountRejected(amountIn) == amountIn.kind # "finite" \/ amountIn.n <= 0

\* if (!Number.isInteger(amountIn)) amountIn = Math.floor(amountIn);
\* amountInUnits = BigInt(amountIn)
AmountInUnits(amountIn) ==
    IF ~IsInteger(amountIn.n, amountIn.d)
    THEN MathFloor(amountIn.n, amountIn.d)
    ELSE amountIn.n \div amountIn.d

\* inTokenAddress = direction === "0to1" ? FINE5_ADDRESS : FINE6_ADDRESS
InToken(direction) == IF direction = "0to1" THEN "FINE5" ELSE "FINE6"

\* faulty variant: the comparison is the wrong way round
NeedsApprovalInverted(currentAllowance, amountInUnits) ==
    currentAllowance > amountInUnits

\* if (currentAllowance < amountInUnits) approve
NeedsApproval(currentAllowance, amountInUnits) ==
    currentAllowance < amountInUnits

ReserveIn(direction, r0, r1) == IF direction = "0to1" THEN r0 ELSE r1
ReserveOut(direction, r0, r1) == IF direction = "0to1" THEN r1 ELSE r0

\* faulty variant: the check asks for both reserves to be empty
HasNoLiquidityBoth(reserveIn, reserveOut) == reserveIn = 0 /\ reserveOut = 0

\* if (reserveIn === 0n || reserveOut === 0n) throw
HasNoLiquidity(reserveIn, reserveOut) == reserveIn = 0 \/ reserveOut = 0

\* faulty variant: the fee step rounds up
AmountInWithFeeRoundUp(amountInUnits) ==
    (amountInUnits * FEE_NUM + FEE_DEN - 1) \div FEE_DEN

\* amountInWithFee = (amountInUnits * FEE_NUM) / FEE_DEN
AmountInWithFee(amountInUnits) == TruncDiv(amountInUnits * FEE_NUM, FEE_DEN)

\* faulty variant: the quote rounds up
ExecQuoteRoundUp(reserveIn, reserveOut, amountInUnits) ==
    LET amountInWithFee == AmountInWithFee(amountInUnits)
        numerator == amountInWithFee * reserveOut
        denominator == reserveIn + amountInWithFee
    IN  IF denominator = 0 THEN NoVal
        ELSE (numerator + denominator - 1) \div denominator

\* faulty variant: the denominator subtracts the amount paid in
ExecQuoteSignSlip(reserveIn, reserveOut, amountInUnits) ==
    LET amountInWithFee == AmountInWithFee(amountInUnits)
        numerator == amountInWithFee * reserveOut
        denominator == reserveIn - amountInWithFee
    IN  IF denominator = 0 THEN NoVal
        ELSE IF denominator > 0 THEN TruncDiv(numerator, denominator)
        ELSE -TruncDiv(numerator, -denominator)

\* numerator / denominator; a zero denominator is a RangeError, NoVal here
ExecQuote(reserveIn, reserveOut, amountInUnits) ==
    LET amountInWithFee == AmountInWithFee(amountInUnits)
        numerator == amountInWithFee * reserveOut
        denominator == reserveIn + amountInWithFee
    IN  IF denominator = 0 THEN NoVal ELSE TruncDiv(numerator, denominator)

\* faulty variant: only a negative quote is refused
IsNegativeOutput(amountOut) == amountOut < 0

\* if (amountOut <= 0n) throw
IsZeroOutput(amountOut) == amountOut <= 0

\* slippageBps = Math.round(maxSlippagePct * 100)
SlippageBps(maxSlippagePct) ==
    MathRound(maxSlippagePct.n * 100, maxSlippagePct.d)

\* faulty variant: the basis points are scaled as if they were percent
MinOutPercent(amountOut, slippageBps) ==
    TruncDiv(amountOut * (100 - slippageBps), 100)

\* minOut = (amountOut * BigInt(10000 - slippageBps)) / 10000n
MinOut(amountOut, slippageBps) ==
    TruncDiv(amountOut * (BPS_DEN - slippageBps), BPS_DEN)

SwapFunction(direction) ==
    IF direction = "0to1" THEN "swapExact0For1" ELSE "swapExact1For0"

----------------------------------------------------------------------------
(* Exact rationals <<n, d>>, d > 0, in lowest terms, for the display maths *)

RECURSIVE Gcd(_, _)
Gcd(a, b) == IF b = 0 THEN a ELSE Gcd(b, a % b)

Abs(x) == IF x >= 0 THEN x ELSE -x

Rat(n, d) ==
    LET g == Gcd(Abs(n), Abs(d))
        sgn == IF d < 0 THEN -1 ELSE 1
    IN  <<sgn * (n \div g), sgn * (d \div g)>>

RatAdd(x, y) == Rat(x[1] * y[2] + y[1] * x[2], x[2] * y[2])
RatSub(x, y) == Rat(x[1] * y[2] - y[1] * x[2], x[2] * y[2])
RatMul(x, y) == Rat(x[1] * y[1], x[2] * y[2])
RatDiv(x, y) == Rat(x[1] * y[2], x[2] * y[1])
RatLess(x, y) == x[1] * y[2] < y[1] * x[2]
RatInt(n) == <<n, 1>>

----------------------------------------------------------------------------
(* The display maths of the page: getSwapOutput, getPriceImpactPercent *)

\* getSwapOutput(reserveIn, reserveOut, amountIn), all three rationals
GetSwapOutput(reserveIn, reserveOut, amountIn) ==
    IF amountIn[1] <= 0 \/ reserveIn[1] <= 0 \/ reserveOut[1] <= 0
    THEN RatInt(0)
    ELSE LET amountInWithFee ==
                 RatDiv(RatMul(amountIn, RatInt(FEE_NUM)), RatInt(FEE_DEN))
             numerator == RatMul(amountInWithFee, reserveOut)
             denominator == RatAdd(reserveIn, amountInWithFee)
         IN  RatDiv(numerator, denominator)

\* faulty variant: the impact is taken as spot price minus execution price
GetPriceImpactPercentFlipped(reserveIn, reserveOut, amountIn) ==
    IF amountIn[1] <= 0 \/ reserveIn[1] <= 0 \/ reserveOut[1] <= 0
    THEN RatInt(0)
    ELSE LET spotPrice == RatDiv(reserveOut, reserveIn)
             amountOut == GetSwapOutput(reserveIn, reserveOut, amountIn)
             executionPrice == RatDiv(amountOut, amountIn)
             impact == RatDiv(RatSub(spotPrice, executionPrice), spotPrice)
         IN  RatMul(impact, RatInt(100))

\* getPriceImpactPercent(reserveIn, reserveOut, amountIn)
GetPriceImpactPercent(reserveIn, reserveOut, amountIn) ==
    IF amountIn[1] <= 0 \/ reserveIn[1] <= 0 \/ reserveOut[1] <= 0
    THEN RatInt(0)
    ELSE LET spotPrice == RatDiv(reserveOut, reserveIn)
             amountOut == GetSwapOutput(reserveIn, reserveOut, amountIn)
             executionPrice == RatDiv(amountOut, amountIn)
             impact == RatDiv(RatSub(executionPrice, spotPrice), spotPrice)
         IN  RatMul(impact, RatInt(100))

----------------------------------------------------------------------------
(* analyzeLPPosition, after its four reads, and getImpermanentLossPercent *)

LpZero ==
    [isNull |-> FALSE, lpBalance |-> RatInt(0), poolSharePct |-> RatInt(0),
     underlying0 |-> RatInt(0), underlying1 |-> RatInt(0)]

\* faulty variant: underlying1 is computed from reserve0
AnalyzeLPPositionCopied(wallet, lpBalance, totalSupply, reserve0, reserve1) ==
    IF wallet = "" THEN [LpZero EXCEPT !.isNull = TRUE]
    ELSE IF lpBalance = 0 \/ totalSupply = 0 THEN LpZero
    ELSE LET share == RatDiv(RatInt(lpBalance), RatInt(totalSupply))
         IN  [isNull |-> FALSE,
              lpBalance |-> RatInt(lpBalance),
              poolSharePct |-> RatMul(share, RatInt(100)),
              underlying0 |-> RatMul(RatInt(reserve0), share),
              underlying1 |-> RatMul(RatInt(reserve0), share)]

\* analyzeLPPosition(wallet) on the four values read from the pool
AnalyzeLPPosition(wallet, lpBalance, totalSupply, reserve0, reserve1) ==
    IF wallet = "" THEN [LpZero EXCEPT !.isNull = TRUE]
    ELSE IF lpBalance = 0 \/ totalSupply = 0 THEN LpZero
    ELSE LET share == RatDiv(RatInt(lpBalance), RatInt(totalSupply))
         IN  [isNull |-> FALSE,
              lpBalance |-> RatInt(lpBalance),
              poolSharePct |-> RatMul(share, RatInt(100)),
              underlying0 |-> RatMul(RatInt(reserve0), share),
              underlying1 |-> RatMul(RatInt(reserve1), share)]

\* the integer square root of n >= 0
ISqrt(n) == CHOOSE r \in 0..n : r * r <= n /\ n < (r + 1) * (r + 1)

\* Math.sqrt of a rational in lowest terms whose numerator and denominator
\* are perfect squares, where the root is rational and exact; the model
\* applies it to such values only
MathSqrt(p) == <<ISqrt(p[1]), ISqrt(p[2])>>

\* faulty variant: the ratio is taken as hodl value over LP value
GetImpermanentLossPercentInverted(priceChangePct) ==
    LET p == RatAdd(RatInt(1), RatDiv(priceChangePct, RatInt(100)))
    IN  IF p[1] <= 0 THEN RatInt(0)
        ELSE LET hodlValue == RatDiv(RatAdd(p, RatInt(1)), RatInt(2))
                 lpValue == MathSqrt(p)
                 il == RatMul(RatSub(RatDiv(hodlValue, lpValue), RatInt(1)),
                              RatInt(100))
             IN  il

\* getImpermanentLossPercent(priceChangePct)
GetImpermanentLossPercent(priceChangePct) ==
    LET p == RatAdd(RatInt(1), RatDiv(priceChangePct, RatInt(100)))
    IN  IF p[1] <= 0 THEN RatInt(0)
        ELSE LET hodlValue == RatDiv(RatAdd(p, RatInt(1)), RatInt(2))
                 lpValue == MathSqrt(p)
                 il == RatMul(RatSub(RatDiv(lpValue, hodlValue), RatInt(1)),
                              RatInt(100))
             IN  il

----------------------------------------------------------------------------
(* The pure quoting functions applied to bounded inputs *)

\* reserves and amounts the execution quote of executeSwap is tried on
ExecReserves == (1..MaxReserve) \cup {20, 30, 30000}
ExecAmounts == (1..MaxAmountIn) \cup {100, 334, 1000, 3000}

\* reserves and amounts the display functions are tried on
DisplayReserves == (0 - 1)..MaxReserve
DisplayAmounts ==
    {<<0 - 1, 1>>, <<0, 1>>, <<1, 2>>, <<3, 2>>}
        \cup {<<n, 1>> : n \in 1..MaxAmountIn}

CalcInput(fn, reserveIn, reserveOut, amountIn) ==
    [phase |-> "input", fn |-> fn, reserveIn |-> reserveIn,
     reserveOut |-> reserveOut, amountIn |-> amountIn,
     amountInWithFee |-> 0, amountOut |-> <<0, 1>>, impact |-> <<0, 1>>,
     amountIn2 |-> 0, amountOut2 |-> 0,
     wallet |-> "", lpBalance |-> 0, totalSupply |-> 0, lp |-> LpZero,
     priceChangePct |-> <<0, 1>>, il |-> <<0, 1>>]

\* two amounts quoted against the same reserves
CalcPair(reserveIn, reserveOut, amountIn, amountIn2) ==
    [CalcInput("executeSwapPair", reserveIn, reserveOut, <<amountIn, 1>>)
       EXCEPT !.amountIn2 = amountIn2]

CalcIdle == CalcInput("none", 0, 0, <<0, 1>>)

\* wallets, LP balances, LP supplies and reserves analyzeLPPosition reads
LpWallets == {"", "0x581E"}
LpBalances == 0..MaxAmountIn
LpTotals == {0, 1, 3, 4, 1000}
LpReserves == {0, 7, 20, 30}

CalcLp(wallet, lpBalance, totalSupply, reserve0, reserve1) ==
    [CalcInput("analyzeLPPosition", reserve0, reserve1, <<0, 1>>)
       EXCEPT !.wallet = wallet, !.lpBalance = lpBalance,
              !.totalSupply = totalSupply]

\* price changes in percent: those for which the price ratio 1 + x/100 is
\* the square (m/n)^2 of a rational with m, n up to MaxRoot (x >= -100,
\* the root exact), and two changes below -100
PriceChanges ==
    {Rat(100 * (m * m - n * n), n * n) : m \in 0..MaxRoot, n \in 1..MaxRoot}
        \cup {<<0 - 150, 1>>, <<0 - 200, 1>>}

CalcIl(priceChangePct) ==
    [CalcInput("getImpermanentLossPercent", 0, 0, <<0, 1>>)
       EXCEPT !.priceChangePct = priceChangePct]

CalcInputs ==
    {CalcInput("executeSwap", rIn, rOut, <<a, 1>>) :
        rIn \in ExecReserves, rOut \in ExecReserves, a \in ExecAmounts}
    \cup {CalcInput("executeSwap", 101131, 99493, <<100, 1>>)}
    \cup {CalcInput("getSwapOutput", rIn, rOut, a) :
        rIn \in DisplayReserves, rOut \in DisplayReserves,
        a \in DisplayAmounts}
    \cup {CalcPair(rIn, rOut, a, a2) :
        rIn \in ExecReserves, rOut \in ExecReserves,
        a \in ExecAmounts, a2 \in ExecAmounts}
    \cup {CalcLp(w, b, t, r0, r1) :
        w \in LpWallets, b \in LpBalances, t \in LpTotals,
        r0 \in LpReserves, r1 \in LpReserves}
    \cup {CalcIl(x) : x \in PriceChanges}

\* lines 215-221 of executeSwap applied to the inputs
ExecutionQuote ==
    /\ calc.phase = "input"
    /\ calc.fn = "executeSwap"
    /\ calc' = [calc EXCEPT
         !.phase = "done",
         !.amountInWithFee = AmountInWithFee(calc.amountIn[1]),
         !.amountOut = RatInt(ExecQuote(calc.reserveIn, calc.reserveOut,
                                        calc.amountIn[1]))]
    /\ UNCHANGED <<reserves, allowance, ledgerLog, trades, att, dash>>

\* lines 215-221 of executeSwap applied to two amounts, same reserves
ExecutionQuotePair ==
    /\ calc.phase = "input"
    /\ calc.fn = "executeSwapPair"
    /\ calc' = [calc EXCEPT
         !.phase = "done",
         !.amountOut = RatInt(ExecQuote(calc.reserveIn, calc.reserveOut,
                                        calc.amountIn[1])),
         !.amountOut2 = ExecQuote(calc.reserveIn, calc.reserveOut,
                                  calc.amountIn2)]
    /\ UNCHANGED <<reserves, allowance, ledgerLog, trades, att, dash>>

\* analyzeLPPosition applied to the values its four reads returned
AnalyzeLP ==
    /\ calc.phase = "input"
    /\ calc.fn = "analyzeLPPosition"
    /\ calc' = [calc EXCEPT
         !.phase = "done",
         !.lp = AnalyzeLPPosition(calc.wallet, calc.lpBalance,
                                  calc.totalSupply, calc.reserveIn,
                                  calc.reserveOut)]
    /\ UNCHANGED <<reserves, allowance, ledgerLog, trades, att, dash>>

\* getImpermanentLossPercent applied to a price change
ImpermanentLoss ==
    /\ calc.phase = "input"
    /\ calc.fn = "getImpermanentLossPercent"
    /\ calc' = [calc EXCEPT
         !.phase = "done",
         !.il = GetImpermanentLossPercent(calc.priceChangePct)]
    /\ UNCHANGED <<reserves, allowance, ledgerLog, trades, att, dash>>

\* handleCalculateRisk's two calls applied to the inputs
DisplayQuote ==
    /\ calc.phase = "input"
    /\ calc.fn = "getSwapOutput"
    /\ calc' = [calc EXCEPT
         !.phase = "done",
         !.amountOut = GetSwapOutput(RatInt(calc.reserveIn),
                                     RatInt(calc.reserveOut), calc.amountIn),
         !.impact = GetPriceImpactPercent(RatInt(calc.reserveIn),
                                          RatInt(calc.reserveOut),
                                          calc.amountIn)]
    /\ UNCHANGED <<reserves, allowance, ledgerLog, trades, att, dash>>

----------------------------------------------------------------------------
(* The external ledger *)

\* the pool's own quote for amountIn against its current reserves
PoolOut(direction, amountIn) ==
    ExecQuote(ReserveIn(direction, reserves[1], reserves[2]),
              ReserveOut(direction, reserves[1], reserves[2]), amountIn)

\* reserves after the pool takes amountIn and pays amountOut
PoolAfter(direction, amountIn, amountOut) ==
    IF direction = "0to1"
    THEN <<reserves[1] + amountIn, reserves[2] - amountOut>>
    ELSE <<reserves[1] - amountOut, reserves[2] + amountIn>>

\* a trade of another party settles on the ledger
LedgerTrade ==
    /\ trades < MaxTrades
    /\ \E direction \in Directions :
         LET amountOut == PoolOut(direction, MaxAmountIn)
         IN  /\ reserves[1] > 0 /\ reserves[2] > 0
             /\ amountOut > 0
             /\ reserves' = PoolAfter(direction, MaxAmountIn, amountOut)
    /\ ledgerLog' = ledgerLog \cup {reserves'}
    /\ trades' = trades + 1
    /\ UNCHANGED <<allowance, att, calc, dash>>

----------------------------------------------------------------------------
(* executeSwap, one action per awaited call *)

IdleAttempt ==
    [pc |-> "idle", direction |-> "0to1", amountIn |-> Num(0, 1),
     maxSlippagePct |-> Num(0, 1), amountInUnits |-> 0,
     currentAllowance |-> NoVal, r0 |-> NoVal, r1 |-> NoVal,
     amountOut |-> 0, minOut |-> 0, bounded |-> FALSE,
     approvals |-> 0, approvalObserved |-> FALSE,
     swaps |-> 0, swapFn |-> "none", swapAmountIn |-> 0, swapMinOut |-> 0,
     reads |-> 0, error |-> "",
     inToken |-> "none",           \* token whose allowance was queried
     failedAt |-> "none",          \* history: the step that threw
     allowanceAtSubmit |-> NoVal,  \* history: ledger allowance at submission
     interfered |-> FALSE]         \* history: see Settled

\* the call throws at its current step
Fail(s, message) ==
    att' = [att EXCEPT ![s].pc = "failed", ![s].error = message,
                       ![s].failedAt = att[s].pc]

\* the steps between the allowance query and the swap submission
AllowanceWindow == {"approve", "approveWait", "approveMined", "reserves",
                    "quote", "submit"}

\* history: session s moves to pc as its approval or swap over token
\* settles on the ledger; every other session that is inside its
\* AllowanceWindow for the same token is marked as interfered with
Settled(s, token, pc) ==
    [t \in Sessions |->
       IF t = s THEN [att[s] EXCEPT !.pc = pc]
       ELSE IF att[t].pc \in AllowanceWindow /\ att[t].inToken = token
       THEN [att[t] EXCEPT !.interfered = TRUE]
       ELSE att[t]]

\* executeSwap(direction, amountIn, maxSlippagePct): validation and flooring
Start(s, direction, amountIn, maxSlippagePct) ==
    /\ att[s].pc = "idle"
    /\ att' = [att EXCEPT ![s] =
         [@ EXCEPT !.direction = direction, !.amountIn = amountIn,
                   !.maxSlippagePct = maxSlippagePct,
                   !.pc = IF AmountRejected(amountIn)
                          THEN "failed" ELSE "signer",
                   !.error = IF AmountRejected(amountIn)
                             THEN ErrAmount ELSE "",
                   !.failedAt = IF AmountRejected(amountIn)
                                THEN "idle" ELSE "none",
                   !.amountInUnits = IF AmountRejected(amountIn)
                                     THEN 0 ELSE AmountInUnits(amountIn)]]
    /\ UNCHANGED <<reserves, allowance, ledgerLog, trades, calc, dash>>

\* await getSigner(); await signer.getAddress()
GetSigner(s) ==
    /\ att[s].pc = "signer"
    /\ \/ att' = [att EXCEPT ![s].pc = "allowance"]
       \/ Fail(s, ErrRejected)
    /\ UNCHANGED <<reserves, allowance, ledgerLog, trades, calc, dash>>

\* await inToken.allowance(signerAddress, POOL_ADDRESS), then the branch
QueryAllowance(s) ==
    /\ att[s].pc = "allowance"
    /\ LET currentAllowance == allowance[InToken(att[s].direction)]
       IN  att' = [att EXCEPT
             ![s].currentAllowance = currentAllowance,
             ![s].inToken = InToken(att[s].direction),
             ![s].reads = @ + 1,
             ![s].pc = IF NeedsApproval(currentAllowance,
                                        att[s].amountInUnits)
                       THEN "approve" ELSE "reserves"]
    /\ UNCHANGED <<reserves, allowance, ledgerLog, trades, calc, dash>>

\* the allowance read fails in the transport
QueryAllowanceFails(s) ==
    /\ att[s].pc = "allowance"
    /\ Fail(s, ErrNetwork)
    /\ UNCHANGED <<reserves, allowance, ledgerLog, trades, calc, dash>>

\* faulty variant: the approval is sent and its confirmation is not awaited
SubmitApproveNoWait(s) ==
    /\ att[s].pc = "approve"
    /\ att' = [att EXCEPT ![s].approvals = @ + 1, ![s].pc = "reserves"]
    /\ UNCHANGED <<reserves, allowance, ledgerLog, trades, calc, dash>>

\* await inToken.approve(POOL_ADDRESS, amountInUnits): the instruction is sent
SubmitApprove(s) ==
    /\ att[s].pc = "approve"
    /\ att' = [att EXCEPT ![s].approvals = @ + 1, ![s].pc = "approveWait"]
    /\ UNCHANGED <<reserves, allowance, ledgerLog, trades, calc, dash>>

\* the ledger settles the approval: the allowance is overwritten
ApproveMined(s) ==
    /\ att[s].pc = "approveWait"
    /\ allowance' = [allowance EXCEPT
                       ![InToken(att[s].direction)] = att[s].amountInUnits]
    /\ att' = Settled(s, InToken(att[s].direction), "approveMined")
    /\ UNCHANGED <<reserves, ledgerLog, trades, calc, dash>>

\* await approveTx.wait() returns
ApproveObserved(s) ==
    /\ att[s].pc = "approveMined"
    /\ att' = [att EXCEPT ![s].approvalObserved = TRUE, ![s].pc = "reserves"]
    /\ UNCHANGED <<reserves, allowance, ledgerLog, trades, calc, dash>>

\* the approval is refused by the wallet, or reverts
ApproveFails(s) ==
    /\ \/ att[s].pc = "approve" /\ Fail(s, ErrRejected)
       \/ att[s].pc = "approveWait" /\ Fail(s, ErrReverted)
    /\ UNCHANGED <<reserves, allowance, ledgerLog, trades, calc, dash>>

\* after a read of Promise.all([reserve0(), reserve1()]) the call goes on
\* once both values are there
AfterRead(a) == IF a.r0 # NoVal /\ a.r1 # NoVal THEN "quote" ELSE "reserves"

\* readOnlyPool.reserve0() is answered
ReadReserve0(s) ==
    /\ att[s].pc = "reserves"
    /\ att[s].r0 = NoVal
    /\ att' = [att EXCEPT ![s] =
         [@ EXCEPT !.r0 = reserves[1], !.reads = @ + 1,
                   !.pc = AfterRead([att[s] EXCEPT !.r0 = reserves[1]])]]
    /\ UNCHANGED <<reserves, allowance, ledgerLog, trades, calc, dash>>

\* readOnlyPool.reserve1() is answered
ReadReserve1(s) ==
    /\ att[s].pc = "reserves"
    /\ att[s].r1 = NoVal
    /\ att' = [att EXCEPT ![s] =
         [@ EXCEPT !.r1 = reserves[2], !.reads = @ + 1,
                   !.pc = AfterRead([att[s] EXCEPT !.r1 = reserves[2]])]]
    /\ UNCHANGED <<reserves, allowance, ledgerLog, trades, calc, dash>>

\* one of the two reserve reads fails in the transport
ReadReservesFails(s) ==
    /\ att[s].pc = "reserves"
    /\ Fail(s, ErrNetwork)
    /\ UNCHANGED <<reserves, allowance, ledgerLog, trades, calc, dash>>

\* lines 208-228, run without suspension once both reserves are read:
\* the liquidity check, the quote, the zero-output check and the bound
Quote(s) ==
    /\ att[s].pc = "quote"
    /\ LET a == att[s]
           reserveIn == ReserveIn(a.direction, a.r0, a.r1)
           reserveOut == ReserveOut(a.direction, a.r0, a.r1)
           amountOut == ExecQuote(reserveIn, reserveOut, a.amountInUnits)
       IN  IF HasNoLiquidity(reserveIn, reserveOut)
           THEN Fail(s, ErrNoLiquidity)
           ELSE IF reserveIn + AmountInWithFee(a.amountInUnits) = 0
           THEN Fail(s, ErrRange)           \* BigInt division by zero
           ELSE IF IsZeroOutput(amountOut)
           THEN att' = [att EXCEPT ![s].amountOut = amountOut,
                                   ![s].pc = "failed",
                                   ![s].failedAt = "quote",
                                   ![s].error = ErrZeroOutput]
           ELSE IF a.maxSlippagePct.kind # "finite"
           THEN att' = [att EXCEPT ![s].amountOut = amountOut,
                                   ![s].pc = "failed",
                                   ![s].failedAt = "quote",
                                   ![s].error = ErrRange]  \* BigInt(NaN)
           ELSE att' = [att EXCEPT
                  ![s].amountOut = amountOut,
                  ![s].minOut = MinOut(amountOut,
                                       SlippageBps(a.maxSlippagePct)),
                  ![s].bounded = TRUE,
                  ![s].pc = "submit"]
    /\ UNCHANGED <<reserves, allowance, ledgerLog, trades, calc, dash>>

\* await pool.swapExact0For1(amountInUnits, minOut) or swapExact1For0:
\* a negative minOut does not encode as uint256; otherwise the instruction
\* is sent, unless the wallet refuses it
SubmitSwap(s) ==
    /\ att[s].pc = "submit"
    /\ IF att[s].minOut < 0
       THEN Fail(s, ErrEncode)
       ELSE \/ att' = [att EXCEPT
                 ![s].swaps = @ + 1,
                 ![s].swapFn = SwapFunction(att[s].direction),
                 ![s].swapAmountIn = att[s].amountInUnits,
                 ![s].swapMinOut = att[s].minOut,
                 ![s].allowanceAtSubmit =
                     allowance[InToken(att[s].direction)],
                 ![s].pc = "swapWait"]
            \/ Fail(s, ErrRejected)
    /\ UNCHANGED <<reserves, allowance, ledgerLog, trades, calc, dash>>

\* the ledger settles the swap and await tx.wait() returns: the pool pulls
\* amountIn under the allowance and pays its own quote, at least minOut
SwapMined(s) ==
    /\ att[s].pc = "swapWait"
    /\ LET direction == IF att[s].swapFn = "swapExact0For1"
                        THEN "0to1" ELSE "1to0"
           amountOut == PoolOut(direction, att[s].swapAmountIn)
       IN  /\ reserves[1] > 0 /\ reserves[2] > 0
           /\ allowance[InToken(direction)] >= att[s].swapAmountIn
           /\ amountOut >= att[s].swapMinOut
           /\ reserves' = PoolAfter(direction, att[s].swapAmountIn, amountOut)
           /\ allowance' = [allowance EXCEPT ![InToken(direction)] =
                              @ - att[s].swapAmountIn]
    /\ ledgerLog' = ledgerLog \cup {reserves'}
    /\ att' = Settled(s, InToken(IF att[s].swapFn = "swapExact0For1"
                                 THEN "0to1" ELSE "1to0"), "confirmed")
    /\ UNCHANGED <<trades, calc, dash>>

\* faulty variant: a rejected swap is submitted again
SwapFailsRetry(s) ==
    /\ att[s].pc = "swapWait"
    /\ att' = [att EXCEPT ![s].pc = "submit"]
    /\ UNCHANGED <<reserves, allowance, ledgerLog, trades, calc, dash>>

\* the ledger rejects the swap
SwapFails(s) ==
    /\ att[s].pc = "swapWait"
    /\ Fail(s, ErrReverted)
    /\ UNCHANGED <<reserves, allowance, ledgerLog, trades, calc, dash>>

----------------------------------------------------------------------------
(* The page component: its state and its handlers *)

(* The page starts with reserves 101131 and 99493; their product and the   *)
(* price impact computed from them exceed TLC's 32-bit integers, so the    *)
(* model starts the page with reserves 20 and 30.  Numbers held by the     *)
(* page are rationals <<n, d>>; text fields are [kind, n, d] inputs.       *)
DashInit ==
    [reserve0 |-> RatInt(20), reserve1 |-> RatInt(30),
     k |-> RatMul(RatInt(20), RatInt(30)),
     totalSupply |-> 0, reserveSource |-> "onchain",
     direction |-> "0to1", amountIn |-> Num(100, 1),
     quoted |-> FALSE,             \* FALSE: amountOut and priceImpact null
     amountOut |-> RatInt(0), priceImpact |-> RatInt(0),
     fetchPc |-> "pending",        \* loadReserves of the mount effect
     f0 |-> NoVal, f1 |-> NoVal, fSupply |-> NoVal,
     events |-> 0]

\* what the user may type in a reserve field or the amount field
ReserveTexts == {NaN, Num(0, 1), Num(5, 1), Num(1, 2)}
AmountTexts == {NaN, Num(0, 1), Num(2, 1), Num(100, 1)}

\* LP supplies the ledger may report
LpSupplies == {0, 1000}

\* Number(e.target.value) || 0
NumberOrZero(text) ==
    IF text.kind = "NaN" \/ text.n = 0 THEN RatInt(0)
    ELSE Rat(text.n, text.d)

\* a user event is possible while fewer than MaxEvents have happened
UserEvent ==
    /\ dash.events < MaxEvents

\* fetchOnchainReserves: pool.reserve0() of the Promise.all is answered
FetchReserve0 ==
    /\ dash.fetchPc = "pending"
    /\ dash.f0 = NoVal
    /\ dash' = [dash EXCEPT !.f0 = reserves[1]]
    /\ UNCHANGED <<reserves, allowance, ledgerLog, trades, att, calc>>

\* fetchOnchainReserves: pool.reserve1() is answered
FetchReserve1 ==
    /\ dash.fetchPc = "pending"
    /\ dash.f1 = NoVal
    /\ dash' = [dash EXCEPT !.f1 = reserves[2]]
    /\ UNCHANGED <<reserves, allowance, ledgerLog, trades, att, calc>>

\* fetchOnchainReserves: pool.totalSupply() is answered
FetchTotalSupply ==
    /\ dash.fetchPc = "pending"
    /\ dash.fSupply = NoVal
    /\ \E supply \in LpSupplies : dash' = [dash EXCEPT !.fSupply = supply]
    /\ UNCHANGED <<reserves, allowance, ledgerLog, trades, att, calc>>

\* k = reserve0 * reserve1 of fetchOnchainReserves
FetchedK(reserve0, reserve1) == RatMul(reserve0, reserve1)

\* the fetch resolves and loadReserves sets reserve0, reserve1, k,
\* totalSupply and the source
LoadReserves ==
    /\ dash.fetchPc = "pending"
    /\ dash.f0 # NoVal /\ dash.f1 # NoVal /\ dash.fSupply # NoVal
    /\ dash' = [dash EXCEPT
         !.reserve0 = RatInt(dash.f0),
         !.reserve1 = RatInt(dash.f1),
         !.k = FetchedK(RatInt(dash.f0), RatInt(dash.f1)),
         !.totalSupply = dash.fSupply,
         !.reserveSource = "onchain",
         !.fetchPc = "done"]
    /\ UNCHANGED <<reserves, allowance, ledgerLog, trades, att, calc>>

\* a read of the fetch fails: the catch branch of loadReserves
LoadReservesFails ==
    /\ dash.fetchPc = "pending"
    /\ dash' = [dash EXCEPT !.reserveSource = "error", !.fetchPc = "error"]
    /\ UNCHANGED <<reserves, allowance, ledgerLog, trades, att, calc>>

\* onChange of the Reserve0 field: setReserve0(Number(value) || 0)
EditReserve0(text) ==
    /\ UserEvent
    /\ dash' = [dash EXCEPT !.reserve0 = NumberOrZero(text),
                            !.events = @ + 1]
    /\ UNCHANGED <<reserves, allowance, ledgerLog, trades, att, calc>>

\* onChange of the Reserve1 field: setReserve1(Number(value) || 0)
EditReserve1(text) ==
    /\ UserEvent
    /\ dash' = [dash EXCEPT !.reserve1 = NumberOrZero(text),
                            !.events = @ + 1]
    /\ UNCHANGED <<reserves, allowance, ledgerLog, trades, att, calc>>

\* onClick of a direction button: setDirection
SetDirection(direction) ==
    /\ UserEvent
    /\ dash' = [dash EXCEPT !.direction = direction, !.events = @ + 1]
    /\ UNCHANGED <<reserves, allowance, ledgerLog, trades, att, calc>>

\* onChange of the amount field: setAmountIn(value)
SetAmountIn(text) ==
    /\ UserEvent
    /\ dash' = [dash EXCEPT !.amountIn = text, !.events = @ + 1]
    /\ UNCHANGED <<reserves, allowance, ledgerLog, trades, att, calc>>

\* handleCalculateRisk: the quote of the held reserves, direction, amount
HandleCalculateRisk ==
    /\ UserEvent
    /\ LET amt == dash.amountIn
           reserveIn == IF dash.direction = "0to1"
                        THEN dash.reserve0 ELSE dash.reserve1
           reserveOut == IF dash.direction = "0to1"
                         THEN dash.reserve1 ELSE dash.reserve0
       IN  IF amt.kind = "NaN" \/ amt.n <= 0
           THEN dash' = [dash EXCEPT !.quoted = FALSE,
                                     !.amountOut = RatInt(0),
                                     !.priceImpact = RatInt(0),
                                     !.events = @ + 1]
           ELSE dash' = [dash EXCEPT
                  !.quoted = TRUE,
                  !.amountOut = GetSwapOutput(reserveIn, reserveOut,
                                              Rat(amt.n, amt.d)),
                  !.priceImpact = GetPriceImpactPercent(reserveIn, reserveOut,
                                                        Rat(amt.n, amt.d)),
                  !.events = @ + 1]
    /\ UNCHANGED <<reserves, allowance, ledgerLog, trades, att, calc>>

----------------------------------------------------------------------------
(* Specification of one swap attempt against a moving ledger *)

\* an empty pool, a pool funded on one side only, a funded pool
InitReserves == {<<0, 0>>, <<0, 30>>, <<20, 0>>, <<20, 30>>}

\* the owner has approved nothing yet, or two tokens of each
InitAllowances == {[t \in Tokens |-> 0], [t \in Tokens |-> 2]}

Init ==
    /\ reserves \in InitReserves
    /\ allowance \in InitAllowances
    /\ ledgerLog = {reserves}
    /\ trades = 0
    /\ att = [s \in Sessions |-> IdleAttempt]
    /\ calc = CalcIdle
    /\ dash = DashInit

\* the steps of a call that has started
Steps(s) ==
    \/ GetSigner(s)
    \/ QueryAllowance(s)
    \/ QueryAllowanceFails(s)
    \/ SubmitApprove(s)
    \/ ApproveMined(s)
    \/ ApproveObserved(s)
    \/ ApproveFails(s)
    \/ ReadReserve0(s)
    \/ ReadReserve1(s)
    \/ ReadReservesFails(s)
    \/ Quote(s)
    \/ SubmitSwap(s)
    \/ SwapMined(s)
    \/ SwapFails(s)

ExecuteSwap(s) ==
    \/ \E direction \in Directions, amountIn \in AmountInputs,
          maxSlippagePct \in SlippageInputs :
         Start(s, direction, amountIn, maxSlippagePct)
    \/ Steps(s)

\* one session swaps while other parties trade on the ledger
Next == ExecuteSwap(1) \/ LedgerTrade

Spec == Init /\ [][Next]_vars

----------------------------------------------------------------------------
(* Specification of two sessions of the same owner (two open pages), each  *)
(* running handleExecuteSwap once against the same ledger                  *)

\* amounts typed in the amount field that pass handleExecuteSwap's guard
SwapTexts == {Infinity, Num(1, 1), Num(2, 1), Num(4, 1)}

\* handleExecuteSwap: the guard on Number(amountIn), then
\* executeSwap(direction, amt, 1.0)
HandleExecuteSwap(s, direction, text) ==
    /\ ~(text.kind = "NaN" \/ text.n <= 0)
    /\ Start(s, direction, text, Num(1, 1))

\* what handleExecuteSwap puts in swapStatus when the call has ended
SwapStatus(a) ==
    IF a.pc = "failed" THEN <<"Swap failed: ", a.error>>
    ELSE IF a.pc = "confirmed" THEN <<"Swap executed! Tx: ", "">>
    ELSE <<"Sending transaction... (approve + swap)", "">>

InitTwo ==
    /\ reserves \in {<<20, 30>>, <<0, 30>>}
    /\ allowance \in InitAllowances
    /\ ledgerLog = {reserves}
    /\ trades = 0
    /\ att = [s \in Sessions |-> IdleAttempt]
    /\ calc = CalcIdle
    /\ dash = DashInit

NextTwo ==
    \E s \in Sessions :
      \/ \E direction \in Directions, text \in SwapTexts :
           HandleExecuteSwap(s, direction, text)
      \/ Steps(s)

SpecTwo == InitTwo /\ [][NextTwo]_vars

----------------------------------------------------------------------------
(* Specification of the pure quoting functions on bounded inputs *)

InitQuote ==
    /\ reserves = <<0, 0>>
    /\ allowance = [t \in Tokens |-> 0]
    /\ ledgerLog = {reserves}
    /\ trades = 0
    /\ att = [s \in Sessions |-> IdleAttempt]
    /\ calc \in CalcInputs
    /\ dash = DashInit

NextQuote ==
    \/ ExecutionQuote
    \/ ExecutionQuotePair
    \/ DisplayQuote
    \/ AnalyzeLP
    \/ ImpermanentLoss

SpecQuote == InitQuote /\ [][NextQuote]_vars

----------------------------------------------------------------------------
(* Specification of the page: its mount effect and its user events, while  *)
(* other parties trade on the ledger                                       *)

NextDash ==
    \/ FetchReserve0
    \/ FetchReserve1
    \/ FetchTotalSupply
    \/ LoadReserves
    \/ LoadReservesFails
    \/ \E text \in ReserveTexts : EditReserve0(text)
    \/ \E text \in ReserveTexts : EditReserve1(text)
    \/ \E direction \in Directions : SetDirection(direction)
    \/ \E text \in AmountTexts : SetAmountIn(text)
    \/ HandleCalculateRisk
    \/ LedgerTrade

SpecDash == Init /\ [][NextDash]_vars

----------------------------------------------------------------------------
(* Properties of the swap orchestrator, checked under Spec *)

BeforeQuote == {"idle", "signer", "allowance", "approve", "approveWait",
                "approveMined", "reserves", "quote"}
ReadBoth(a) == a.r0 # NoVal /\ a.r1 # NoVal

\* C1: when the queried allowance is below amountIn, a swap instruction is
\* submitted only after one approval instruction was issued and its
\* confirmation observed (an approval that fails or is never confirmed leaves
\* the attempt without a swap); when the allowance suffices, no approval
\* instruction is issued.
C1_ApproveBeforeSwap ==
    \A s \in Sessions :
      LET a == att[s]
      IN  /\ a.swaps > 0 => a.currentAllowance # NoVal
          /\ (a.swaps > 0 /\ a.currentAllowance < a.amountInUnits)
                => (a.approvals = 1 /\ a.approvalObserved)
          /\ (a.approvals > 0 /\ ~a.approvalObserved) => a.swaps = 0
          /\ (a.currentAllowance # NoVal
                /\ a.currentAllowance >= a.amountInUnits) => a.approvals = 0
          /\ (a.currentAllowance # NoVal
                /\ a.currentAllowance < a.amountInUnits
                /\ a.pc \notin {"approve", "failed"}) => a.approvals = 1

C1_Witness ==
    \E s \in Sessions :
      /\ att[s].swaps = 1
      /\ att[s].currentAllowance < att[s].amountInUnits
      /\ att[s].approvals = 1
      /\ att[s].approvalObserved

\* C2: an attempt whose freshly read reserveIn or reserveOut is zero ends in
\* Failed with the reason "Pool has no liquidity" and submits no swap, in
\* both directions.
C2_NoLiquidityFails ==
    \A s \in Sessions :
      LET a == att[s]
      IN  (ReadBoth(a) /\ a.pc \notin BeforeQuote /\ (a.r0 = 0 \/ a.r1 = 0))
            => (a.pc = "failed" /\ a.error = ErrNoLiquidity /\ a.swaps = 0)

C2_Witness ==
    \E s \in Sessions :
      /\ att[s].pc = "failed"
      /\ att[s].error = ErrNoLiquidity
      /\ att[s].direction = "1to0"
      /\ att[s].r0 = 0 /\ att[s].r1 > 0
      /\ att[s].amountInUnits > 1

\* C3 as stated, for the tolerances the guard is specified for, (0, 100]:
\* every computed minOut is at most amountOut, is zero only at 10000 basis
\* points, and every swap submitted with a tolerance below 100% carries
\* minOut > 0.
C3_Original ==
    \A s \in Sessions :
      LET a == att[s]
          bps == SlippageBps(a.maxSlippagePct)
      IN  (a.bounded /\ SlippageInRange(a.maxSlippagePct)) =>
            /\ a.minOut <= a.amountOut
            /\ a.minOut = 0 => bps = 10000
            /\ (a.swaps > 0 /\ bps < 10000) => a.swapMinOut > 0

\* C3 amended: minOut is amountOut * (10000 - bps) / 10000 truncated toward
\* zero; it is at most amountOut whenever bps >= 0 and at least amountOut
\* when bps < 0; it is zero exactly when |amountOut * (10000 - bps)| < 10000
\* (at 100%, and for small outputs below 100%); every swap submitted carries
\* that minOut, which is >= 0.
C3_MinOutTruncated ==
    \A s \in Sessions :
      LET a == att[s]
          bps == SlippageBps(a.maxSlippagePct)
          x == a.amountOut * (10000 - bps)
          abs == IF x >= 0 THEN x ELSE -x
          mag == IF a.minOut >= 0 THEN a.minOut ELSE -a.minOut
      IN  a.bounded =>
            /\ a.amountOut > 0
            /\ mag * 10000 <= abs /\ abs < (mag + 1) * 10000
            /\ (x >= 0 => a.minOut >= 0) /\ (x < 0 => a.minOut <= 0)
            /\ bps >= 0 => a.minOut <= a.amountOut
            /\ bps < 0 => a.minOut >= a.amountOut
            /\ a.minOut = 0 <=> abs < 10000
            /\ a.swaps > 0 => (a.swapMinOut = a.minOut /\ a.swapMinOut >= 0)

C3_Witness ==
    \E s \in Sessions :
      /\ att[s].swaps = 1
      /\ att[s].amountOut = 1
      /\ SlippageBps(att[s].maxSlippagePct) = 100
      /\ att[s].swapMinOut = 0

\* C4 as stated: an attempt whose maxSlippagePct lies outside (0, 100] is
\* rejected, and no swap is submitted with a minOut derived from it.
C4_InvalidSlippageRejected ==
    \A s \in Sessions :
      LET a == att[s]
      IN  (a.pc # "idle" /\ ~SlippageInRange(a.maxSlippagePct))
            => (a.swaps = 0 /\ a.pc \notin {"swapWait", "confirmed"})

\* C5: an attempt whose quote from the fresh reserves is not positive ends in
\* Failed with the reason "Amount out is zero" and submits no swap.
C5_ZeroOutputFails ==
    \A s \in Sessions :
      LET a == att[s]
          reserveIn == ReserveIn(a.direction, a.r0, a.r1)
          reserveOut == ReserveOut(a.direction, a.r0, a.r1)
          withFee == (a.amountInUnits * 997) \div 1000
      IN  /\ (ReadBoth(a) /\ a.pc \notin BeforeQuote
                /\ reserveIn > 0 /\ reserveOut > 0
                /\ withFee * reserveOut < reserveIn + withFee)
               => (a.pc = "failed" /\ a.error = ErrZeroOutput /\ a.swaps = 0)
          /\ a.swaps > 0 => a.amountOut > 0

C5_Witness ==
    \E s \in Sessions :
      /\ att[s].pc = "failed"
      /\ att[s].error = ErrZeroOutput
      /\ att[s].amountInUnits = 2
      /\ att[s].r0 > 0 /\ att[s].r1 > 0
      /\ att[s].swaps = 0

\* C6 as stated: the amount an attempt enters the allowance check with is a
\* positive integer; a non-finite or non-positive input is refused before any
\* external read or instruction.
C6_AmountPositive ==
    \A s \in Sessions :
      LET a == att[s]
      IN  /\ (a.pc \notin {"idle", "signer"} /\ a.error # ErrAmount)
                => a.amountInUnits > 0
          /\ (a.pc # "idle" /\ (a.amountIn.kind # "finite"
                                   \/ a.amountIn.n <= 0))
                => (a.pc = "failed" /\ a.error = ErrAmount)
          /\ a.error = ErrAmount
                => (a.reads = 0 /\ a.approvals = 0 /\ a.swaps = 0)

\* C7 as stated: the reserve pair a quote is computed from equals the
\* ledger's reserves in one single ledger state.
C7_AtomicSnapshot ==
    \A s \in Sessions :
      ReadBoth(att[s]) => <<att[s].r0, att[s].r1>> \in ledgerLog

----------------------------------------------------------------------------
(* Properties of the quoting functions, checked under SpecQuote *)

ExecDone == calc.phase = "done" /\ calc.fn = "executeSwap"
DisplayDone == calc.phase = "done" /\ calc.fn = "getSwapOutput"

\* C8: for positive integers the execution quote is
\* floor(amountInWithFee * reserveOut / (reserveIn + amountInWithFee)) with
\* amountInWithFee = floor(amountIn * 997 / 1000); reserveIn = 101131,
\* reserveOut = 99493, amountIn = 100 gives 97.
C8_QuoteFloorsTwice ==
    ExecDone =>
      LET amountIn == calc.amountIn[1]
          withFee == calc.amountInWithFee
          amountOut == calc.amountOut[1]
          denominator == calc.reserveIn + withFee
      IN  /\ calc.amountOut[2] = 1
          /\ withFee * 1000 <= amountIn * 997
          /\ amountIn * 997 < (withFee + 1) * 1000
          /\ amountOut * denominator <= withFee * calc.reserveOut
          /\ withFee * calc.reserveOut < (amountOut + 1) * denominator
          /\ (calc.reserveIn = 101131 /\ calc.reserveOut = 99493
                /\ amountIn = 100) => (withFee = 99 /\ amountOut = 97)

C8_Witness ==
    /\ ExecDone
    /\ calc.reserveIn = 101131 /\ calc.reserveOut = 99493
    /\ calc.amountIn = <<100, 1>>
    /\ calc.amountOut = <<97, 1>>

\* C9: for positive reserves and amountIn, reserveIn * reserveOut <=
\* (reserveIn + amountInWithFee) * (reserveOut - amountOut), and
\* amountOut < reserveOut.  (For the scenario with reserves above 30000 the
\* products exceed TLC's 32-bit integers, and the same inequality is
\* stated with reserveIn * reserveOut subtracted from both sides.)
C9_Conservation ==
    ExecDone =>
      LET withFee == calc.amountInWithFee
          amountOut == calc.amountOut[1]
          rIn == calc.reserveIn
          rOut == calc.reserveOut
      IN  /\ amountOut >= 0
          /\ amountOut < rOut
          /\ IF rIn <= 30000 /\ rOut <= 30000
             THEN rIn * rOut <= (rIn + withFee) * (rOut - amountOut)
             ELSE 0 <= withFee * rOut - amountOut * (rIn + withFee)

C9_Witness ==
    /\ ExecDone
    /\ calc.reserveIn = 20 /\ calc.reserveOut = 30
    /\ calc.amountIn = <<100, 1>>
    /\ calc.amountOut[1] = 24
    /\ 20 * 30 < (20 + calc.amountInWithFee) * (30 - calc.amountOut[1])

\* C10: for a positive trade against positive reserves the quoted amountOut
\* (execution and display) is strictly below amountIn * reserveOut /
\* reserveIn, and the price impact is below zero; the price impact is zero
\* only in the degenerate case of a non-positive amount or reserve.
C10_ExecutionBelowSpot ==
    /\ ExecDone =>
         calc.amountOut[1] * calc.reserveIn
            < calc.amountIn[1] * calc.reserveOut
    /\ DisplayDone =>
         IF calc.amountIn[1] > 0 /\ calc.reserveIn > 0 /\ calc.reserveOut > 0
         THEN /\ calc.amountOut[1] > 0
              /\ calc.amountOut[1] * calc.amountIn[2] * calc.reserveIn
                    < calc.amountIn[1] * calc.reserveOut * calc.amountOut[2]
              /\ calc.impact[1] < 0
         ELSE calc.impact = <<0, 1>> /\ calc.amountOut = <<0, 1>>

C10_Witness ==
    /\ DisplayDone
    /\ calc.reserveIn = 2 /\ calc.reserveOut = 3
    /\ calc.amountIn = <<3, 2>>
    /\ calc.impact[1] < 0


----------------------------------------------------------------------------
(* Further properties of the swap orchestrator, checked under Spec *)

\* floor(n / 10000) = m, for any sign of n
FloorsTo(n, m) == m * BPS_DEN <= n /\ n < (m + 1) * BPS_DEN

\* the swap a session has submitted is the one its direction asks for: the
\* input token, the swap function, the amount, and a quote computed from
\* the two reserves read from the ledger in this attempt after the
\* allowance step (never the reserves the page displays)
SwapAsDirected(a) ==
    /\ a.swapAmountIn = a.amountInUnits
    /\ a.swapMinOut = a.minOut
    /\ a.currentAllowance # NoVal
    /\ a.approvals = 0 => a.currentAllowance >= a.swapAmountIn
    /\ a.approvals > 0 => a.approvalObserved
    /\ \E x \in ledgerLog : x[1] = a.r0
    /\ \E x \in ledgerLog : x[2] = a.r1
    /\ a.direction = "0to1" =>
         /\ a.inToken = "FINE5" /\ a.swapFn = "swapExact0For1"
         /\ a.amountOut = (AmountInWithFee(a.swapAmountIn) * a.r1)
                             \div (a.r0 + AmountInWithFee(a.swapAmountIn))
    /\ a.direction = "1to0" =>
         /\ a.inToken = "FINE6" /\ a.swapFn = "swapExact1For0"
         /\ a.amountOut = (AmountInWithFee(a.swapAmountIn) * a.r0)
                             \div (a.r1 + AmountInWithFee(a.swapAmountIn))

\* C12: every swap instruction submitted is direction-appropriate (token A
\* in, reserve0 as reserveIn, swapExact0For1 for 0to1; the mirror image for
\* 1to0), carries the amount the allowance was checked for, and carries
\* minOut = floor(amountOut * (10000 - bps) / 10000) with amountOut quoted
\* from reserves read in this attempt after the allowance step.
C12_SwapAsDirected ==
    \A s \in Sessions :
      LET a == att[s]
      IN  a.swaps > 0 =>
            /\ SwapAsDirected(a)
            /\ FloorsTo(a.amountOut * (BPS_DEN - SlippageBps(a.maxSlippagePct)),
                        a.swapMinOut)

\* the same for the tolerances of (0, 100]
C12_InRange ==
    \A s \in Sessions :
      LET a == att[s]
      IN  (a.swaps > 0 /\ SlippageInRange(a.maxSlippagePct)) =>
            /\ SwapAsDirected(a)
            /\ FloorsTo(a.amountOut * (BPS_DEN - SlippageBps(a.maxSlippagePct)),
                        a.swapMinOut)

\* C13: no automatic retry: an attempt sends at most one approval and at
\* most one swap, and once it has failed or is confirmed it issues no
\* further read or instruction (its state never changes again).
C13_NoRetry ==
    /\ [](\A s \in Sessions : att[s].approvals <= 1 /\ att[s].swaps <= 1)
    /\ [][\A s \in Sessions :
            att[s].pc \in {"failed", "confirmed"} =>
              att'[s] = att[s]]_vars

\* an approval and a swap were sent, the swap was rejected, nothing follows
C13_Witness ==
    \E s \in Sessions :
      /\ att[s].pc = "failed" /\ att[s].failedAt = "swapWait"
      /\ att[s].approvals = 1 /\ att[s].swaps = 1

----------------------------------------------------------------------------
(* Properties of two sessions of the same owner, checked under SpecTwo *)

\* the kind of failure of a failed attempt, from the step that threw
FailureKind(a) ==
    CASE a.failedAt = "idle" -> "invalid input"
      [] a.failedAt \in {"approve", "approveWait"} -> "approval failed"
      [] a.failedAt = "quote" /\ (a.r0 = 0 \/ a.r1 = 0) -> "no liquidity"
      [] a.failedAt = "quote" /\ a.r0 # 0 /\ a.r1 # 0 -> "zero output"
      [] a.failedAt = "submit" -> "swap refused by the wallet"
      [] a.failedAt = "swapWait" -> "slippage rejected by ledger"
      [] OTHER -> "transport error"

\* C14: every Failed carries a reason that identifies the kind of failure:
\* two failed attempts of different kinds (approval failed, no liquidity,
\* zero output, slippage rejected by the ledger, invalid input, transport
\* error) never show the same reason.
C14_ReasonIdentifiesKind ==
    \A s, t \in Sessions :
      (att[s].pc = "failed" /\ att[t].pc = "failed"
         /\ FailureKind(att[s]) # FailureKind(att[t]))
        => SwapStatus(att[s]) # SwapStatus(att[t])

\* C19 as stated: at the moment a session submits its swap for amountIn,
\* the ledger allowance of the pool over the owner's input token is at
\* least amountIn, under every interleaving of two sessions of the owner.
C19_Original ==
    \A s \in Sessions :
      att[s].swaps > 0 => att[s].allowanceAtSubmit >= att[s].swapAmountIn

\* C19 amended: at the moment a session submits its swap for amountIn, the
\* allowance it last observed is at least amountIn (the allowance it
\* queried, or its own approval of amountIn whose confirmation it awaited),
\* and the ledger allowance itself is at least amountIn when no approval or
\* swap of another session over the same token has settled between this
\* session's allowance query and its submission.
C19_AllowanceAsObserved ==
    \A s \in Sessions :
      LET a == att[s]
      IN  a.swaps > 0 =>
            /\ a.approvals = 0 => a.currentAllowance >= a.swapAmountIn
            /\ a.approvals > 0 => a.approvalObserved
            /\ ~a.interfered => a.allowanceAtSubmit >= a.swapAmountIn

\* both sessions approved the same token, one after the other, and the
\* later one has submitted its swap undisturbed
C19_Witness ==
    \E s, t \in Sessions :
      /\ s # t
      /\ att[s].swaps > 0 /\ ~att[s].interfered
      /\ att[s].approvals = 1 /\ att[t].approvals = 1
      /\ att[t].approvalObserved
      /\ att[s].inToken = att[t].inToken
      /\ att[s].allowanceAtSubmit >= att[s].swapAmountIn

----------------------------------------------------------------------------
(* Properties of the page, checked under SpecDash *)

\* C17: in every reachable state of the page the k it shows equals
\* reserve0 * reserve1 of the reserves it holds: k is recomputed whenever a
\* reserve changes, by an on-chain load or by a manual edit.
C17_KIsProduct == dash.k = RatMul(dash.reserve0, dash.reserve1)

\* C18: the quote shown is never kept across a change: whenever amountOut
\* and priceImpact are not null they are the quote of the reserves,
\* direction and amount the page holds now.
C18_QuoteIsCurrent ==
    dash.quoted =>
      LET amt == dash.amountIn
          reserveIn == IF dash.direction = "0to1"
                       THEN dash.reserve0 ELSE dash.reserve1
          reserveOut == IF dash.direction = "0to1"
                        THEN dash.reserve1 ELSE dash.reserve0
      IN  /\ amt.kind = "finite" /\ amt.n > 0
          /\ dash.amountOut
               = GetSwapOutput(reserveIn, reserveOut, Rat(amt.n, amt.d))
          /\ dash.priceImpact
               = GetPriceImpactPercent(reserveIn, reserveOut,
                                       Rat(amt.n, amt.d))

\* C11: for fixed positive reserves the integer execution quote (both
\* floors) is monotone in the amount: amountIn <= amountIn2 implies
\* quote(amountIn) <= quote(amountIn2).
C11_QuoteMonotone ==
    (calc.phase = "done" /\ calc.fn = "executeSwapPair"
       /\ calc.reserveIn > 0 /\ calc.reserveOut > 0
       /\ calc.amountIn[1] <= calc.amountIn2)
      => calc.amountOut[1] <= calc.amountOut2

\* 2 then 4 into reserves 2 : 8 quote 2 then 4
C11_Witness ==
    /\ calc.phase = "done" /\ calc.fn = "executeSwapPair"
    /\ calc.reserveIn = 2 /\ calc.reserveOut = 8
    /\ calc.amountIn = <<2, 1>> /\ calc.amountIn2 = 4
    /\ calc.amountOut = <<2, 1>> /\ calc.amountOut2 = 4

\* C15: analyzeLPPosition returns all zeros when lpBalance = 0 or
\* totalSupply = 0 (no division by zero); otherwise share =
\* lpBalance / totalSupply, underlying0 * totalSupply = reserve0 * lpBalance,
\* underlying1 * totalSupply = reserve1 * lpBalance and poolSharePct =
\* share * 100.
C15_LpShares ==
    (calc.phase = "done" /\ calc.fn = "analyzeLPPosition"
       /\ ~calc.lp.isNull) =>
      IF calc.lpBalance = 0 \/ calc.totalSupply = 0
      THEN calc.lp = LpZero
      ELSE /\ calc.lp.lpBalance = <<calc.lpBalance, 1>>
           /\ calc.lp.poolSharePct[1] * calc.totalSupply
                = 100 * calc.lpBalance * calc.lp.poolSharePct[2]
           /\ calc.lp.underlying0[1] * calc.totalSupply
                = calc.reserveIn * calc.lpBalance * calc.lp.underlying0[2]
           /\ calc.lp.underlying1[1] * calc.totalSupply
                = calc.reserveOut * calc.lpBalance * calc.lp.underlying1[2]

\* 1 of 4 LP tokens over reserves 20 : 30 is 25%, 5 and 7.5
C15_Witness ==
    /\ calc.phase = "done" /\ calc.fn = "analyzeLPPosition"
    /\ calc.lpBalance = 1 /\ calc.totalSupply = 4
    /\ calc.reserveIn = 20 /\ calc.reserveOut = 30
    /\ calc.lp.poolSharePct = <<25, 1>>
    /\ calc.lp.underlying0 = <<5, 1>>
    /\ calc.lp.underlying1 = <<15, 2>>

\* C16: getImpermanentLossPercent(0) = 0; the result is non-positive for
\* every price change above -100%; it is 0 when the price ratio p <= 0.
C16_LossNonPositive ==
    (calc.phase = "done" /\ calc.fn = "getImpermanentLossPercent") =>
      LET x == calc.priceChangePct
      IN  /\ x[1] = 0 => calc.il[1] = 0
          /\ x[1] > (0 - 100) * x[2] => calc.il[1] <= 0
          /\ x[1] <= (0 - 100) * x[2] => calc.il[1] = 0

\* the price quadruples (+300%): the loss is 20%
C16_Witness ==
    /\ calc.phase = "done" /\ calc.fn = "getImpermanentLossPercent"
    /\ calc.priceChangePct = <<300, 1>>
    /\ calc.il = <<0 - 20, 1>>
====
